---- MODULE Spec2Model ----
(***************************************************************************)
(* The episode logic of TMazeEnv (src/env/tmaze.py): construction,         *)
(* reset(), step() and the panorama stitch of render().                    *)
(*                                                                         *)
(* Lengths are fixed-point, in units of 0.25: the canonical goal           *)
(* [-3.25, 2.75] is <<-13, 11>> and the factor 0.75 is 3.  All the         *)
(* lengths the code compares are multiples of 0.25 and exact in binary     *)
(* floating point, so the integer arithmetic agrees with the code's.       *)
(*                                                                         *)
(* The physics collaborator (pybullet, car.THH) is not part of the         *)
(* repository's logic: the pose it reports after a reset or a step and     *)
(* whether it reports a wall contact are inputs of the actions.            *)
(* A Python exception raised by a handler is recorded in ret.outcome; the  *)
(* assignments the handler made before the raise are kept.                 *)
(***************************************************************************)
EXTENDS Integers, Sequences, FiniteSets, TLC

VARIABLES
    target_setting,        \* self.target_setting
    obs,                   \* self.obs
    return_depth,          \* self.return_depth
    reward_scales,         \* self.reward_scales, a list of two numbers
    collision_punishment,  \* self.collision_punishment
    action_repeats,        \* self.action_repeats
    observation_space,     \* shape of self.observation_space
    phase,                 \* "constructing": __init__ at line 73; "ready": __init__ returned;
                           \* "failed": __init__ raised, there is no object
    goal_position,         \* self.goal_position
    done,                  \* self.done
    car,                   \* pose of self.car, <<>> while self.car is None
    n_episode,             \* self.n_episode
    info,                  \* keys of self.info, {} before the first reset
    nsteps,                \* step() calls since the last reset
    reset_arg,             \* goal_pos argument of the latest reset: <<>> is None
    ret                    \* what the latest call did and returned

vars == <<target_setting, obs, return_depth, reward_scales, collision_punishment,
          action_repeats, observation_space, phase, goal_position, done, car,
          n_episode, info, nsteps, reset_arg, ret>>

config == <<target_setting, obs, return_depth, reward_scales, collision_punishment,
            action_repeats, observation_space>>

----------------------------------------------------------------------------
(* Bounds of the model *)

MaxEpisodes == 3
MaxSteps == 2

(* Inputs *)

TargetSettings == {"either", "switching", "random"}
ObsModes == {"vision", "both", "proprioception"}
RewardScales == {<<1000, 1000>>, <<500, 1000>>}
Punishments == {1}
ActionRepeats == {3}
Headings == {0, 1, 2}      \* yaw of the car, in quarter turns: east, north, west
GoalArgs == {<<>>, <<0>>, <<1>>}

----------------------------------------------------------------------------
(* Geometry *)

zoom_coef == 2

abs(x) == IF x < 0 THEN 0 - x ELSE x

Max(S) == CHOOSE m \in S : \A x \in S : x <= m
Min(S) == CHOOSE m \in S : \A x \in S : m <= x

\* mutant: the canonical goals are not scaled
generate_goal_Unscaled(tmp) ==
    << <<-13, 11>>, <<13, 11>> >>[tmp + 1]

\* generate_goal: the canonical goals scaled by zoom_coef, indexed by tmp
generate_goal(tmp) ==
    LET goal_positions == << <<-13, 11>>, <<13, 11>> >>
        scaled == [k \in 1..2 |-> <<goal_positions[k][1] * zoom_coef,
                                    goal_positions[k][2] * zoom_coef>>]
    IN scaled[tmp + 1]

\* the nominal start [0, -2.5] scaled by zoom_coef (init_position_randomness = 0)
init_position == <<0 * zoom_coef, -10 * zoom_coef>>

\* the poses the physics collaborator is asked to report: the start heading
\* north (theta = pi/2), and points around both goals at 0.5, 0.75 and 1.0
\* times zoom_coef, heading east in the right arm and west in the left arm
Offsets == {<<2 * zoom_coef, 0>>, <<3 * zoom_coef, 0>>, <<4 * zoom_coef, 0>>,
            <<0 - 2 * zoom_coef, 2 * zoom_coef>>, <<0, 0 - 3 * zoom_coef>>}
Poses == {<<init_position[1], init_position[2], 1>>} \cup
         {<<generate_goal(i)[1] + o[1], generate_goal(i)[2] + o[2], 2 - 2 * i>> :
              i \in {0, 1}, o \in Offsets}

\* the poses the car is found in after the 600 settling sub-steps of reset()
\* (lines 301-305): the nominal start, a pose outside the box of the left goal
\* and a pose inside the box of the right goal
StartPoses == {<<init_position[1], init_position[2], 1>>,
               <<generate_goal(0)[1] + 4 * zoom_coef, generate_goal(0)[2], 2>>,
               <<generate_goal(1)[1] + 2 * zoom_coef, generate_goal(1)[2], 0>>}

\* self.goal_position as a value: nested is isinstance(self.goal_position[0], list)
Unset == [nested |-> FALSE, val |-> <<>>]
Single(p) == [nested |-> FALSE, val |-> <<p>>]
Pair(p, q) == [nested |-> TRUE, val |-> <<p, q>>]

----------------------------------------------------------------------------
(* reset(): goal selection, lines 263-270 *)

\* mutant: the configured policy is applied even when an index is given
SelectGoal_PolicyFirst(ts, goal_pos, old, tmp) ==
    IF ts = "random" THEN
        [raised |-> FALSE, goal |-> Single(generate_goal(tmp))]
    ELSE IF ts = "switching" THEN
        IF old.val = <<>> \/ old.nested THEN [raised |-> TRUE, goal |-> old]
        ELSE [raised |-> FALSE, goal |-> Single(<<0 - old.val[1][1], old.val[1][2]>>)]
    ELSE
        [raised |-> FALSE, goal |-> Pair(generate_goal(0), generate_goal(1))]

SelectGoal(ts, goal_pos, old, tmp) ==
    IF goal_pos # <<>> THEN
        [raised |-> FALSE, goal |-> Single(generate_goal(goal_pos[1]))]
    ELSE IF ts = "random" THEN
        [raised |-> FALSE, goal |-> Single(generate_goal(tmp))]
    ELSE IF ts = "switching" THEN
        IF old.val = <<>> THEN
            \* self.goal_position is read before it was ever assigned
            [raised |-> TRUE, goal |-> old]
        ELSE IF old.nested THEN
            \* [-[x0, y0], [x1, y1]]: unary minus on a list
            [raised |-> TRUE, goal |-> old]
        ELSE
            [raised |-> FALSE, goal |-> Single(<<0 - old.val[1][1], old.val[1][2]>>)]
    ELSE
        [raised |-> FALSE, goal |-> Pair(generate_goal(0), generate_goal(1))]

----------------------------------------------------------------------------
(* render(): four captures and the stitch, lines 322-425 *)

FrameSize == 16

\* One capture at yaw offset k quarter turns, resized to FrameSize columns.
\* A column is a number that identifies the channel group (colour below
\* 4 * FrameSize, depth-sensory above), the world direction the camera faces
\* and the column's index (0-based, as numpy counts).
Capture(kind, yaw, k) ==
    [c \in 1..FrameSize |->
        (IF kind = "depth" THEN 4 * FrameSize ELSE 0) + ((yaw + k) % 4) * FrameSize + c - 1]

\* mutant: the two halves of the rear capture change sides
Stitch_RearSwapped(frame, frame2, frame3, frame4) ==
    SubSeq(frame3, 1, 8) \o frame2 \o frame \o frame4 \o SubSeq(frame3, 9, Len(frame3))

\* np.concatenate((frame3[:, 8:], frame2, frame, frame4, frame3[:, :8]), axis=1)
Stitch(frame, frame2, frame3, frame4) ==
    SubSeq(frame3, 9, Len(frame3)) \o frame2 \o frame \o frame4 \o SubSeq(frame3, 1, 8)

NoFrame == [rgb |-> <<>>, depth |-> <<>>]

render(pose, depth_flag) ==
    LET yaw == pose[3]
        rgb == Stitch(Capture("rgb", yaw, 0), Capture("rgb", yaw, 1),
                      Capture("rgb", yaw, 2), Capture("rgb", yaw, 3))
        depth == Stitch(Capture("depth", yaw, 0), Capture("depth", yaw, 1),
                        Capture("depth", yaw, 2), Capture("depth", yaw, 3))
    IN IF depth_flag THEN [rgb |-> rgb, depth |-> depth]
       ELSE [rgb |-> rgb, depth |-> <<>>]

\* render() reads the pose only for the camera heading and is called with
\* self.return_depth: its results, computed once per heading and flag
rendered ==
    [yaw \in Headings, depth_flag \in BOOLEAN |-> render(<<0, 0, yaw>>, depth_flag)]

\* shape of the array render() returns: rows, columns, channels
FrameShape(f) ==
    <<FrameSize, Len(f.rgb), 3 + (IF f.depth # <<>> THEN 1 ELSE 0)>>

swapaxes(shape, i, j) ==
    [k \in 1..Len(shape) |-> IF k = i + 1 THEN shape[j + 1]
                             ELSE IF k = j + 1 THEN shape[i + 1] ELSE shape[k]]

\* np.swapaxes(np.swapaxes(frame, 0, 2), 1, 2)
VisionShape(f) == swapaxes(swapaxes(FrameShape(f), 0, 2), 1, 2)

\* np.array(car_ob, dtype=np.float32): position and orientation
ObShape == <<6>>

\* the box declared in __init__, lines 29-36
DeclaredSpace(o, depth_flag) ==
    IF o # "vision" THEN <<6>>
    ELSE <<IF depth_flag THEN 4 ELSE 3, 16, 64>>

----------------------------------------------------------------------------
(* the record of the latest call *)

NoCall == [op |-> "none", outcome |-> "none", collision |-> FALSE, substeps |-> 0,
           awarded |-> 0, reward |-> 0, hit |-> FALSE, done |-> FALSE, info |-> {},
           trace |-> <<>>,
           observation |-> <<>>, frame |-> NoFrame,
           old_goal |-> Unset, old_done |-> FALSE, old_arg |-> <<>>]

----------------------------------------------------------------------------
(* reset(), lines 253-320 *)

\* what reset() returns as the observation, lines 311-320: a list of array
\* shapes, two of them when the observation is the pair (proprioception, vision)
\* mutant: the vision frame is returned as render() gives it, axes not swapped
ResetObservation_NoSwap(o, f) ==
    IF o = "vision" THEN <<FrameShape(f)>>
    ELSE IF o = "both" THEN <<ObShape, FrameShape(f)>>
    ELSE <<ObShape>>

ResetObservation(o, f) ==
    IF o = "vision" THEN <<VisionShape(f)>>
    ELSE IF o = "both" THEN <<ObShape, VisionShape(f)>>
    ELSE <<ObShape>>

reset(goal_pos, pose, tmp) ==
    LET sel == SelectGoal(target_setting, goal_pos, goal_position, tmp)
        f == IF obs \in {"vision", "both"} THEN rendered[pose[3], return_depth] ELSE NoFrame
        called == [NoCall EXCEPT !.op = "reset", !.old_goal = goal_position,
                                 !.old_done = done, !.old_arg = reset_arg]
    IN /\ done' = FALSE
       /\ reset_arg' = goal_pos
       /\ UNCHANGED config
       /\ IF sel.raised THEN
              /\ phase' = IF phase = "constructing" THEN "failed" ELSE phase
              /\ ret' = [called EXCEPT !.outcome = "AttributeError"]
              /\ UNCHANGED <<goal_position, car, n_episode, info, nsteps>>
          ELSE
              /\ phase' = "ready"
              /\ goal_position' = sel.goal
              /\ car' = pose
              /\ n_episode' = n_episode + 1
              /\ info' = {"ob"}
              /\ nsteps' = 0
              /\ ret' = [called EXCEPT !.outcome = "returned",
                                       !.observation = ResetObservation(obs, f),
                                       !.frame = f]

----------------------------------------------------------------------------
(* step(), lines 79-129 *)

\* the proximity test of lines 103 and 108
InBox(car_ob, g) ==
    /\ abs(car_ob[1] - g[1]) < 3 * zoom_coef
    /\ abs(car_ob[2] - g[2]) < 3 * zoom_coef

\* lines 100-111: the reward before the punishment, and whether a goal was hit.
\* With a single goal the whole list self.reward_scales is added to the int 0,
\* which raises TypeError before self.done is assigned.
AwardGoal(car_ob, gp, scales) ==
    IF ~gp.nested THEN
        IF InBox(car_ob, gp.val[1])
        THEN [raised |-> TRUE, reward |-> 0, hit |-> FALSE]
        ELSE [raised |-> FALSE, reward |-> 0, hit |-> FALSE]
    ELSE
        LET matching == {i \in 1..Len(gp.val) : InBox(car_ob, gp.val[i])}
        IN IF matching = {} THEN [raised |-> FALSE, reward |-> 0, hit |-> FALSE]
           ELSE [raised |-> FALSE, reward |-> scales[Min(matching)], hit |-> TRUE]

\* mutant: a collision ends the episode too
StepDone_OnCollision(d, hit, collision) == d \/ hit \/ collision

\* mutant: done is recomputed by every step from the proximity test alone
StepDone_Recomputed(d, hit, collision) == hit

\* lines 105 and 110: self.done is only ever set to True here
StepDone(d, hit, collision) == d \/ hit

\* lines 113-114
Punish(collision, reward, scales, punishment) ==
    IF collision /\ reward < Max({scales[i] : i \in 1..Len(scales)})
    THEN reward - punishment ELSE reward

\* lines 82-96: physics sub-steps of one step()
SubSteps(repeats, collision) ==
    repeats + (IF collision THEN 2 * repeats ELSE 0)

\* createObjects builds eight walls, lines 144-217: len(self.wallUIds)
NumWalls == 8

\* The calls step() makes to the car and to the physics engine are recorded
\* in order, each as <<call, argument, result>>:
\*   <<"apply_action", 1, 0>>        the caller's action
\*   <<"apply_action", 0, 0>>        np.zeros_like(action)
\*   <<"stepSimulation", 0, 0>>
\*   <<"getContactPoints", w, n>>    wall w, n = 1 when the contact list is not empty
\*   <<"get_position", 0, 0>>
\* What the engine answers to the contact queries is an input: contacts is
\* the set of <<repeat, wall>> whose query finds a contact.
ContactPatterns(repeats) ==
    {{}, {<<1, 1>>}, {<<repeats, NumWalls>>}}

\* lines 83-90, from repeat r on: the action, one sub-step, one query per wall
RECURSIVE ActivePhase(_, _, _)
ActivePhase(r, repeats, contacts) ==
    IF r > repeats THEN <<>>
    ELSE << <<"apply_action", 1, 0>>, <<"stepSimulation", 0, 0>> >>
         \o [w \in 1..NumWalls |->
                <<"getContactPoints", w, IF <<r, w>> \in contacts THEN 1 ELSE 0>>]
         \o ActivePhase(r + 1, repeats, contacts)

\* lines 82-90: collision is set to 1 by any non-empty contact list and never cleared
Collision(repeats, contacts) ==
    \E r \in 1..repeats, w \in 1..NumWalls : <<r, w>> \in contacts

\* mutant: the buffering lasts action_repeats sub-steps instead of twice as many
Buffering_Short(repeats, collision) ==
    IF collision
    THEN [k \in 1..(2 * repeats) |->
             IF k % 2 = 1 THEN <<"apply_action", 0, 0>> ELSE <<"stepSimulation", 0, 0>>]
    ELSE <<>>

\* lines 92-96: int(self.action_repeats * 2) sub-steps with the zero action
Buffering(repeats, collision) ==
    IF collision
    THEN [k \in 1..(2 * (2 * repeats)) |->
             IF k % 2 = 1 THEN <<"apply_action", 0, 0>> ELSE <<"stepSimulation", 0, 0>>]
    ELSE <<>>

\* lines 82-98: everything step() asks of the car and the engine, up to the
\* read of the position the goal test uses
PhysicsTrace(repeats, contacts) ==
    ActivePhase(1, repeats, contacts)
        \o Buffering(repeats, Collision(repeats, contacts))
        \o << <<"get_position", 0, 0>> >>

\* the traces of every configured action_repeats and contact pattern,
\* computed once
traces ==
    [repeats \in ActionRepeats |->
        [contacts \in ContactPatterns(repeats) |-> PhysicsTrace(repeats, contacts)]]

\* mutant: self.info is returned in every mode, with the vision tensor added
\* when the observation is not vision-only
StepInfo_AlwaysOb(o, self_info) ==
    IF o = "vision" THEN self_info ELSE self_info \cup {"vision"}

\* lines 124-129: the keys of the returned info
StepInfo(o, self_info) ==
    IF o = "vision" THEN self_info
    ELSE IF o = "both" THEN {}
    ELSE {"vision"}

\* lines 124-129: the returned observation
StepObservation(o, f) ==
    IF o = "vision" THEN <<VisionShape(f)>>
    ELSE IF o = "both" THEN <<ObShape, VisionShape(f)>>
    ELSE <<ObShape>>

step(contacts, pose) ==
    LET collision == Collision(action_repeats, contacts)
        award == AwardGoal(pose, goal_position, reward_scales)
        f == rendered[pose[3], return_depth]
        called == [NoCall EXCEPT !.op = "step", !.collision = collision,
                                 !.substeps = SubSteps(action_repeats, collision),
                                 !.trace = traces[action_repeats][contacts],
                                 !.old_goal = goal_position, !.old_done = done,
                                 !.old_arg = reset_arg]
    IN /\ car' = pose
       /\ nsteps' = nsteps + 1
       /\ UNCHANGED <<config, phase, goal_position, n_episode, reset_arg>>
       /\ IF award.raised THEN
              /\ ret' = [called EXCEPT !.outcome = "TypeError", !.done = done]
              /\ UNCHANGED <<done, info>>
          ELSE
              /\ done' = StepDone(done, award.hit, collision)
              /\ info' = {"ob"}
              /\ ret' = [called EXCEPT
                            !.outcome = "returned",
                            !.awarded = award.reward,
                            !.hit = award.hit,
                            !.reward = Punish(collision, award.reward, reward_scales,
                                              collision_punishment),
                            !.done = StepDone(done, award.hit, collision),
                            !.info = StepInfo(obs, {"ob"}),
                            !.observation = StepObservation(obs, f),
                            !.frame = f]

----------------------------------------------------------------------------
(* The state machine *)

\* __init__ up to line 73: the configuration is stored, self.goal_position is
\* not assigned (line 69 assigns self.goal), self.car is None
Init ==
    /\ target_setting \in TargetSettings
    /\ obs \in ObsModes
    /\ return_depth \in BOOLEAN
    /\ reward_scales \in RewardScales
    /\ collision_punishment \in Punishments
    /\ action_repeats \in ActionRepeats
    /\ observation_space = DeclaredSpace(obs, return_depth)
    /\ phase = "constructing"
    /\ goal_position = Unset
    /\ done = FALSE
    /\ car = <<>>
    /\ n_episode = 0
    /\ info = {}
    /\ nsteps = 0
    /\ reset_arg = <<>>
    /\ ret = NoCall

\* line 245: self.np_random.integers(0, 2) is drawn only when generate_goal is
\* called with None, which reset() does for 'random' without an explicit index
Draws(goal_pos) ==
    IF goal_pos = <<>> /\ target_setting = "random" THEN {0, 1} ELSE {0}

\* line 74: the constructor's own self.reset(); the car settles at the nominal
\* start, heading pi/2
Construct ==
    /\ phase = "constructing"
    /\ \E tmp \in Draws(<<>>) :
           reset(<<>>, <<init_position[1], init_position[2], 1>>, tmp)

Reset ==
    /\ phase = "ready"
    /\ n_episode < MaxEpisodes
    /\ \E goal_pos \in GoalArgs, pose \in StartPoses :
           \E tmp \in Draws(goal_pos) : reset(goal_pos, pose, tmp)

Step ==
    /\ phase = "ready"
    /\ nsteps < MaxSteps
    /\ \E contacts \in ContactPatterns(action_repeats), pose \in Poses :
           step(contacts, pose)

Next == Construct \/ Reset \/ Step

Spec == Init /\ [][Next]_vars

----------------------------------------------------------------------------
(* Vocabulary of the properties *)

IsSingle(gp) == ~gp.nested /\ Len(gp.val) = 1
IsPair(gp) == gp.nested /\ Len(gp.val) = 2

LeftGoal == <<-13 * zoom_coef, 11 * zoom_coef>>     \* [-3.25, 2.75] * zoom_coef
RightGoal == <<13 * zoom_coef, 11 * zoom_coef>>     \* [ 3.25, 2.75] * zoom_coef

\* both |x - goal.x| and |y - goal.y| strictly below 0.75 * zoom_coef
Near(p, g) ==
    /\ p[1] - g[1] < 3 * zoom_coef /\ g[1] - p[1] < 3 * zoom_coef
    /\ p[2] - g[2] < 3 * zoom_coef /\ g[2] - p[2] < 3 * zoom_coef

\* indices, in goal-set order, of the active goals the car is near
NearGoals == {i \in 1..Len(goal_position.val) : Near(car, goal_position.val[i])}

\* the reward scale that belongs to a goal: the pair's i-th entry carries
\* reward_scales[i], a single goal the scale of its side
ScaleOf(i) ==
    IF goal_position.nested THEN reward_scales[i]
    ELSE reward_scales[IF goal_position.val[i][1] < 0 THEN 1 ELSE 2]

\* the reward a step awards before the punishment
IntendedAward ==
    IF NearGoals = {} THEN 0 ELSE ScaleOf(Min(NearGoals))

MaxScale == Max({reward_scales[i] : i \in 1..Len(reward_scales)})

StepCalled == ret.op = "step"
StepReturned == ret.op = "step" /\ ret.outcome = "returned"
ResetCalled == ret.op = "reset"
ResetReturned == ret.op = "reset" /\ ret.outcome = "returned"

----------------------------------------------------------------------------
\* C1: with target_setting = 'switching', every reset() without a goal index,
\* the constructor's included, returns with a single active goal whose x is
\* the previous episode's goal x negated and whose y is unchanged.
C1_SwitchingAlternates ==
    (target_setting = "switching" /\ ResetCalled /\ reset_arg = <<>>) =>
        /\ ret.outcome = "returned"
        /\ IsSingle(goal_position)
        /\ IsSingle(ret.old_goal) =>
               /\ goal_position.val[1][1] = 0 - ret.old_goal.val[1][1]
               /\ goal_position.val[1][2] = ret.old_goal.val[1][2]

\* C2 as stated: once constructed, the active goal set matches target_setting
\* after every reset (with or without an index) and step: 'either' has both
\* canonical goals as an ordered pair, 'switching' and 'random' have exactly
\* one goal; step() never changes the goal set.
C2_GoalSetMatchesSetting ==
    phase = "ready" =>
        /\ target_setting = "either" => goal_position = Pair(LeftGoal, RightGoal)
        /\ target_setting \in {"switching", "random"} => IsSingle(goal_position)
        /\ StepCalled => goal_position = ret.old_goal

\* C2 amended: once constructed, the active goal set is a single goal when
\* the latest reset was given a goal index; otherwise it matches target_setting
\* ('either': the ordered pair of both canonical goals; 'switching', 'random':
\* exactly one goal); step() never changes the goal set.
C2_GoalSetMatchesLatestReset ==
    phase = "ready" =>
        /\ reset_arg # <<>> => IsSingle(goal_position)
        /\ reset_arg = <<>> =>
               /\ target_setting = "either" => goal_position = Pair(LeftGoal, RightGoal)
               /\ target_setting \in {"switching", "random"} => IsSingle(goal_position)
        /\ StepCalled => goal_position = ret.old_goal

\* a step in an 'either' environment whose episode was reset with index 1
C2_Witness ==
    /\ phase = "ready" /\ target_setting = "either" /\ reset_arg = <<1>>
    /\ StepCalled /\ goal_position = Single(RightGoal)

\* C3: in every step, when the car is near an active goal the step awards
\* the scalar reward scale of the first such goal in goal-set order and sets
\* done; when it is near none, the awarded reward is 0.
C3_AwardFirstMatchingGoal ==
    StepCalled =>
        /\ ret.outcome = "returned"
        /\ ret.awarded = IntendedAward
        /\ NearGoals # {} => done

\* C4: every step returns the awarded reward minus collision_punishment when
\* a collision was detected and the awarded reward is strictly below the
\* maximum reward scale, and the awarded reward itself otherwise.
C4_PunishOnlyBelowMax ==
    StepCalled =>
        /\ ret.outcome = "returned"
        /\ ret.reward = IF ret.collision /\ IntendedAward < MaxScale
                        THEN IntendedAward - collision_punishment
                        ELSE IntendedAward

\* C5: a step reaches a goal exactly when the car is inside the strict box
\* around an active goal; without collision and with done False before, a car
\* at (goal.x + 0.5 * zoom_coef, goal.y) gets the goal's reward and done = True,
\* a car at (goal.x + 1.0 * zoom_coef, goal.y) gets reward 0 and done = False.
C5_StrictBoxTest ==
    StepCalled =>
        /\ ret.hit <=> NearGoals # {}
        /\ \A i \in 1..Len(goal_position.val) :
               LET g == goal_position.val[i]
               IN (~ret.collision /\ ~ret.old_done) =>
                      /\ (car[1] = g[1] + 2 * zoom_coef /\ car[2] = g[2]) =>
                             /\ ret.outcome = "returned"
                             /\ ret.reward = ScaleOf(i)
                             /\ done
                      /\ (car[1] = g[1] + 4 * zoom_coef /\ car[2] = g[2]) =>
                             /\ ret.outcome = "returned"
                             /\ ret.reward = 0
                             /\ ~done

\* C6: done changes from False to True only in a step() whose final car
\* position is inside the box of an active goal; a step() with a wall
\* collision and no active goal in range leaves done unchanged, however many
\* steps the episode has had.
C6_DoneOnlyByReachingGoal ==
    [][/\ (~done /\ done') =>
              /\ ret'.op = "step" /\ nsteps' = nsteps + 1
              /\ \E i \in 1..Len(goal_position'.val) : Near(car', goal_position'.val[i])
       /\ (/\ ret'.op = "step" /\ nsteps' = nsteps + 1
           /\ ret'.collision
           /\ \A i \in 1..Len(goal_position'.val) : ~Near(car', goal_position'.val[i]))
              => done' = done]_vars

\* the second step of an episode collides with a wall and ends in the box of
\* an active goal: done goes from False to True
C6_Witness ==
    /\ StepReturned /\ nsteps = 2 /\ ret.collision
    /\ ~ret.old_done /\ done /\ NearGoals # {}

\* C7 as stated: in every observation mode the info step() returns has the
\* key 'ob', and the key 'vision' too when the mode is not 'vision'.
C7_InfoAlwaysHasOb ==
    StepReturned =>
        /\ "ob" \in ret.info
        /\ obs # "vision" => "vision" \in ret.info

\* C7 amended: the info step() returns holds what the observation lacks: the
\* key 'ob' alone in 'vision' mode, nothing in 'both' mode, the key 'vision'
\* alone in any other (proprioceptive) mode; the attribute self.info holds
\* 'ob' in every mode.
C7_InfoComplementsObservation ==
    StepReturned =>
        /\ obs = "vision" => ret.info = {"ob"}
        /\ obs = "both" => ret.info = {}
        /\ obs \notin {"vision", "both"} => ret.info = {"vision"}
        /\ info = {"ob"}

\* a step in 'both' mode has returned an empty info
C7_Witness ==
    StepReturned /\ obs = "both" /\ ret.info = {}

\* the captures render() takes for the current heading of the car
F(kind) == Capture(kind, car[3], 0)     \* yaw offset 0: forward
Q1(kind) == Capture(kind, car[3], 1)    \* yaw offset pi/2, the spec's R
B(kind) == Capture(kind, car[3], 2)     \* yaw offset pi: rear
Q3(kind) == Capture(kind, car[3], 3)    \* yaw offset 3 pi/2, the spec's L

Rendered == ret.outcome = "returned" /\ ret.frame # NoFrame

\* the panorama p is 80 columns wide: F in the central 16, R in 16:32, L in
\* 48:64, columns 8:16 of B in 0:8 and columns 0:8 of B in 72:80
Layout80(p, kind) ==
    /\ Len(p) = 80
    /\ SubSeq(p, 33, 48) = F(kind)
    /\ SubSeq(p, 17, 32) = Q1(kind)
    /\ SubSeq(p, 49, 64) = Q3(kind)
    /\ SubSeq(p, 1, 8) = SubSeq(B(kind), 9, 16)
    /\ SubSeq(p, 73, 80) = SubSeq(B(kind), 1, 8)

\* the panorama p is 64 columns wide: columns 8:16 of B in 0:8, the pi/2
\* capture in 8:24, F in the central 24:40, the 3 pi/2 capture in 40:56 and
\* columns 0:8 of B in 56:64
Layout64(p, kind) ==
    /\ Len(p) = 64
    /\ SubSeq(p, 1, 8) = SubSeq(B(kind), 9, 16)
    /\ SubSeq(p, 9, 24) = Q1(kind)
    /\ SubSeq(p, 25, 40) = F(kind)
    /\ SubSeq(p, 41, 56) = Q3(kind)
    /\ SubSeq(p, 57, 64) = SubSeq(B(kind), 1, 8)

\* C8 as stated: render() gives an 80-column panorama with F in the central
\* 16 columns, R in 16:32, L in 48:64 and the halves of B in 0:8 and 72:80;
\* the depth channel, when return_depth is set, has the same layout.
C8_Panorama80 ==
    Rendered =>
        /\ Layout80(ret.frame.rgb, "rgb")
        /\ return_depth => Layout80(ret.frame.depth, "depth")

\* C8 amended: render() gives a 64-column panorama: columns 0:8 are columns
\* 8:16 of B, columns 8:24 the capture at yaw offset pi/2, the central columns
\* 24:40 are F, columns 40:56 the capture at yaw offset 3 pi/2, columns 56:64
\* are columns 0:8 of B; the depth channel, present exactly when return_depth
\* is set, has the same layout.
C8_Panorama64 ==
    Rendered =>
        /\ Layout64(ret.frame.rgb, "rgb")
        /\ return_depth => Layout64(ret.frame.depth, "depth")
        /\ ~return_depth => ret.frame.depth = <<>>

\* a step rendered colour and depth with the car heading west
C8_Witness ==
    StepReturned /\ Rendered /\ return_depth /\ car[3] = 2 /\ ret.frame.depth # <<>>

\* C9 as stated: every reset() returns a 6-vector in proprioceptive mode, a
\* (3 or 4 with return_depth) x 16 x 80 tensor in 'vision' mode and the pair
\* of both in 'both' mode, and the shape agrees with the observation_space
\* declared at construction.
C9_ResetShape80 ==
    ResetReturned =>
        LET vision == <<IF return_depth THEN 4 ELSE 3, 16, 80>>
        IN /\ obs = "vision" => ret.observation = <<vision>>
           /\ obs = "both" => ret.observation = <<(<<6>>), vision>>
           /\ obs \notin {"vision", "both"} => ret.observation = <<(<<6>>)>>
           /\ ret.observation = <<observation_space>>

\* C9 amended: every reset() returns a 6-vector in proprioceptive mode, a
\* (3 or 4 with return_depth) x 16 x 64 tensor in 'vision' mode and the pair
\* of both in 'both' mode, whatever the previous episode was; in 'vision' and
\* proprioceptive mode this is the shape of the declared observation_space,
\* in 'both' mode the declared space is the 6-vector box, the shape of the
\* pair's first component only.
C9_ResetShape64 ==
    ResetReturned =>
        LET vision == <<IF return_depth THEN 4 ELSE 3, 16, 64>>
        IN /\ obs = "vision" => ret.observation = <<vision>>
           /\ obs = "both" => ret.observation = <<(<<6>>), vision>>
           /\ obs \notin {"vision", "both"} => ret.observation = <<(<<6>>)>>
           /\ obs # "both" => ret.observation = <<observation_space>>
           /\ obs = "both" => observation_space = ret.observation[1]

\* a reset after an episode that ended with done = True, in 'both' mode with depth
C9_Witness ==
    ResetReturned /\ ret.old_done /\ obs = "both" /\ return_depth /\ n_episode > 1

\* C10: a reset() with goal index i makes canonical goal i scaled by
\* zoom_coef the single active goal, whatever the target_setting; a reset()
\* without an index follows the configured policy again ('either': both
\* goals, 'random': one of the two canonical goals, 'switching': the previous
\* goal, also one chosen by index, mirrored in x).
C10_ExplicitIndexOverrides ==
    ResetReturned =>
        /\ reset_arg = <<0>> => goal_position = Single(<<-26, 22>>)
        /\ reset_arg = <<1>> => goal_position = Single(<<26, 22>>)
        /\ reset_arg = <<>> =>
               /\ target_setting = "either" =>
                      goal_position = Pair(<<-26, 22>>, <<26, 22>>)
               /\ target_setting = "random" =>
                      goal_position \in {Single(<<-26, 22>>), Single(<<26, 22>>)}
               /\ target_setting = "switching" =>
                      /\ IsSingle(ret.old_goal)
                      /\ goal_position = Single(<<0 - ret.old_goal.val[1][1],
                                                  ret.old_goal.val[1][2]>>)

\* a reset without index right after an episode whose goal was chosen by
\* index 1, in an 'either' environment: both goals are active again
C10_Witness ==
    /\ ResetReturned /\ reset_arg = <<>> /\ ret.old_arg = <<1>>
    /\ ret.old_goal = Single(RightGoal) /\ target_setting = "either"
    /\ IsPair(goal_position)

\* the calls of one repeat of the active loop: the action, one sub-step, then
\* one contact query per wall
Block == 2 + NumWalls

\* the positions of the trace t that hold a call of the given name
CallsOf(t, name) == {k \in 1..Len(t) : t[k][1] = name}

\* some contact query among the first n repeats of the trace t was answered
\* with a contact
Contacted(t, n) ==
    \E k \in 1..(n * Block) : t[k][1] = "getContactPoints" /\ t[k][3] = 1

\* C11: in every step() call (also one that raises after the physics ran)
\* the calls come in this order: action_repeats times the caller's action,
\* one sub-step and a contact query for every wall; then, exactly when one of
\* those queries found a contact, 2 * action_repeats times the zero action
\* and one sub-step, without contact queries; and last the single read of the
\* position. The step advances the physics by action_repeats sub-steps
\* without collision and by 3 * action_repeats sub-steps with collision.
C11_SubStepOrder ==
    StepCalled =>
        LET t == ret.trace
            n == action_repeats
            collided == Contacted(t, n)
            extra == IF collided THEN 2 * n ELSE 0
        IN /\ Len(t) = n * Block + 2 * extra + 1
           /\ \A r \in 0..(n - 1) :
                  /\ t[r * Block + 1] = <<"apply_action", 1, 0>>
                  /\ t[r * Block + 2] = <<"stepSimulation", 0, 0>>
                  /\ \A w \in 1..NumWalls :
                         /\ t[r * Block + 2 + w][1] = "getContactPoints"
                         /\ t[r * Block + 2 + w][2] = w
           /\ \A j \in 0..(extra - 1) :
                  /\ t[n * Block + 2 * j + 1] = <<"apply_action", 0, 0>>
                  /\ t[n * Block + 2 * j + 2] = <<"stepSimulation", 0, 0>>
           /\ t[Len(t)] = <<"get_position", 0, 0>>
           /\ CallsOf(t, "get_position") = {Len(t)}
           /\ Cardinality(CallsOf(t, "stepSimulation")) = IF collided THEN 3 * n ELSE n
           /\ ret.collision = collided
           /\ ret.substeps = Cardinality(CallsOf(t, "stepSimulation"))

\* a step whose only contact was found in the first repeat: the remaining
\* repeats still run with the caller's action, then the buffering follows
C11_Witness ==
    /\ StepCalled
    /\ ret.trace[2 + 1] = <<"getContactPoints", 1, 1>>
    /\ ret.trace[(action_repeats - 1) * Block + 1] = <<"apply_action", 1, 0>>
    /\ Cardinality(CallsOf(ret.trace, "stepSimulation")) = 3 * action_repeats
    /\ Len(ret.trace) > action_repeats * Block + 1

\* C12: done is sticky within an episode: a step() called while done is True
\* is carried out like any other (it returns, and awards the scale of the
\* first active goal the car is near, or 0 when it is near none) and returns
\* done = True again, also when the car has left the goal region; done goes
\* from True to False only in a reset().
C12_DoneSticky ==
    [][/\ (done /\ ret'.op = "step" /\ nsteps' = nsteps + 1) =>
              /\ ret'.outcome = "returned"
              /\ ret'.done /\ done'
              /\ ret'.awarded = IntendedAward'
       /\ (done /\ ~done') =>
              /\ ret'.op = "reset" /\ nsteps' = 0]_vars

\* a step taken after done was returned ends outside the box of every active
\* goal and still returns done = True
C12_Witness ==
    /\ StepReturned /\ nsteps = 2 /\ ret.old_done
    /\ NearGoals = {} /\ ret.awarded = 0
    /\ ret.done /\ done

====
